---- MODULE Spec2Model ----
(***************************************************************************)
(* A model of api/index.py: the check-in kiosk proxy.  Each request is     *)
(* served independently; the state is the request being served, what the   *)
(* upstream answered, and the response.  /api/scheduled is modelled one    *)
(* loop iteration at a time, the other handlers as one step each.          *)
(***************************************************************************)
EXTENDS Integers, Sequences, FiniteSets, TLC

VARIABLES op, inp, up, out, sent, pc, page, all_appointments, requested, fetched

vars == <<op, inp, up, out, sent, pc, page, all_appointments, requested, fetched>>

(***************************************************************************)
(* Python / JSON values.  A str is kept as a TLA+ string (field s), or as  *)
(* its sequence of characters (field c) where the code reads characters.   *)
(***************************************************************************)
Null == [t |-> "null"]
Str(s) == [t |-> "str", s |-> s]
Text(c) == [t |-> "str", c |-> c]
Num(n) == [t |-> "num", n |-> n]
Bool(b) == [t |-> "bool", b |-> b]
List(l) == [t |-> "list", l |-> l]
Obj(o) == [t |-> "obj", o |-> o]
EmptyObj == [k \in {} |-> Null]

IsObj(v) == v.t = "obj"
IsList(v) == v.t = "list"
IsStr(v) == v.t = "str"

\* bool(v)
Truthy(v) ==
    CASE v.t = "null" -> FALSE
      [] v.t = "str"  -> IF "c" \in DOMAIN v THEN Len(v.c) > 0 ELSE v.s # ""
      [] v.t = "num"  -> v.n # 0
      [] v.t = "bool" -> v.b
      [] v.t = "list" -> Len(v.l) > 0
      [] v.t = "obj"  -> DOMAIN v.o # {}

HasKey(d, k) == k \in DOMAIN d.o

\* dict.get(k, default) on a dict d
Get(d, k, default) == IF HasKey(d, k) THEN d.o[k] ELSE default

(***************************************************************************)
(* format_date                                                             *)
(***************************************************************************)
Digits == <<"0", "1", "2", "3", "4", "5", "6", "7", "8", "9">>

DigitChar(n) == Digits[n + 1]

IsDigit(ch) == \E i \in 1..10 : Digits[i] = ch

DigitVal(ch) == (CHOOSE i \in 1..10 : Digits[i] = ch) - 1

\* "%02d"
Pad2(n) == <<DigitChar(n \div 10), DigitChar(n % 10)>>

Pad4(n) == <<DigitChar(n \div 1000), DigitChar((n \div 100) % 10),
             DigitChar((n \div 10) % 10), DigitChar(n % 10)>>

\* the one-character placeholder U+2014 (em dash), named since the
\* module is ASCII
EmDash == <<"U+2014">>

\* str.replace("Z", "+00:00")
RECURSIVE ReplaceZ(_)
ReplaceZ(cs) ==
    IF cs = <<>> THEN <<>>
    ELSE IF Head(cs) = "Z" THEN <<"+", "0", "0", ":", "0", "0">> \o ReplaceZ(Tail(cs))
    ELSE <<Head(cs)>> \o ReplaceZ(Tail(cs))

\* str.lstrip("0")
RECURSIVE LStripZero(_)
LStripZero(cs) ==
    IF cs # <<>> /\ Head(cs) = "0" THEN LStripZero(Tail(cs)) ELSE cs

Num2(cs, i) == DigitVal(cs[i]) * 10 + DigitVal(cs[i + 1])

Num4(cs, i) == Num2(cs, i) * 100 + Num2(cs, i + 2)

AllDigits(cs, idx) == \A i \in idx : IsDigit(cs[i])

IsLeap(y) == (y % 4 = 0 /\ y % 100 # 0) \/ y % 400 = 0

DaysInMonth(y, m) ==
    IF m = 2 THEN (IF IsLeap(y) THEN 29 ELSE 28)
    ELSE IF m \in {4, 6, 9, 11} THEN 30 ELSE 31

\* the date part YYYY-MM-DD of datetime.fromisoformat
DateOk(cs) ==
    /\ Len(cs) >= 10
    /\ AllDigits(cs, {1, 2, 3, 4, 6, 7, 9, 10})
    /\ cs[5] = "-" /\ cs[8] = "-"
    /\ Num4(cs, 1) >= 1
    /\ Num2(cs, 6) \in 1..12
    /\ Num2(cs, 9) \in 1..DaysInMonth(Num4(cs, 1), Num2(cs, 6))

\* the time part HH:MM:SS, starting at character 12
TimeOk(cs) ==
    /\ Len(cs) >= 19
    /\ AllDigits(cs, {12, 13, 15, 16, 18, 19})
    /\ cs[14] = ":" /\ cs[17] = ":"
    /\ Num2(cs, 12) \in 0..23
    /\ Num2(cs, 15) \in 0..59
    /\ Num2(cs, 18) \in 0..59

\* the UTC offset +HH:MM, starting at character 20
OffsetOk(cs) ==
    /\ Len(cs) = 25
    /\ cs[20] \in {"+", "-"}
    /\ AllDigits(cs, {21, 22, 24, 25})
    /\ cs[23] = ":"
    /\ Num2(cs, 21) \in 0..23
    /\ Num2(cs, 24) \in 0..59

\* datetime.fromisoformat accepts the text (date, date and time, or date,
\* time and offset); anything else raises ValueError
IsoParseable(cs) ==
    /\ DateOk(cs)
    /\ \/ Len(cs) = 10
       \/ Len(cs) = 19 /\ TimeOk(cs)
       \/ Len(cs) = 25 /\ TimeOk(cs) /\ OffsetOk(cs)

\* datetime.fromisoformat: the fields of the parsed datetime
FromIso(cs) ==
    [month  |-> Num2(cs, 6),
     day    |-> Num2(cs, 9),
     hour   |-> IF Len(cs) = 10 THEN 0 ELSE Num2(cs, 12),
     minute |-> IF Len(cs) = 10 THEN 0 ELSE Num2(cs, 15)]

\* %I: the hour on the 12-hour clock
Hour12(h) == IF h % 12 = 0 THEN 12 ELSE h % 12

\* dt.strftime("%m/%d %I:%M %p")
Strftime(dt) ==
    Pad2(dt.month) \o <<"/">> \o Pad2(dt.day) \o <<" ">>
    \o Pad2(Hour12(dt.hour)) \o <<":">> \o Pad2(dt.minute) \o <<" ">>
    \o (IF dt.hour < 12 THEN <<"A", "M">> ELSE <<"P", "M">>)

\* format_date(date_str): a falsy argument, a value that is no str (no
\* .replace) and an unparseable text all give the placeholder
format_date(date_str) ==
    IF ~Truthy(date_str) THEN EmDash
    ELSE IF ~IsStr(date_str) THEN EmDash
    ELSE IF ~IsoParseable(ReplaceZ(date_str.c)) THEN EmDash
    ELSE LStripZero(Strftime(FromIso(ReplaceZ(date_str.c))))

STATUS_MAP ==
    [s \in {"1000", "2000", "3000", "4000", "8000", "9000"} |->
        CASE s = "1000" -> "Requested"
          [] s = "2000" -> "Countered"
          [] s = "3000" -> "Scheduled"
          [] s = "4000" -> "Checked In"
          [] s = "8000" -> "Complete"
          [] s = "9000" -> "Cancelled"]

\* format_status(status_id)
format_status(status_id) ==
    IF IsStr(status_id) /\ status_id.s \in DOMAIN STATUS_MAP
    THEN STATUS_MAP[status_id.s] ELSE "Unknown"

(***************************************************************************)
(* Date texts handed to format_date                                        *)
(***************************************************************************)
IsoText(y, mo, d, h, mi, suffix) ==
    Pad4(y) \o <<"-">> \o Pad2(mo) \o <<"-">> \o Pad2(d) \o <<"T">>
    \o Pad2(h) \o <<":">> \o Pad2(mi) \o <<":", "0", "0">> \o suffix

Months == {1, 3, 10, 12, 13}
Days == {5, 31}
Hours == {0, 9, 12, 14, 23, 24}
Minutes == {0, 30}
Suffixes == {<<>>, <<"Z">>, <<"+", "0", "0", ":", "0", "0">>}

NotADate == <<"n", "o", "t", "-", "a", "-", "d", "a", "t", "e">>

DateTexts ==
    {IsoText(2024, mo, d, h, mi, sf) :
        mo \in Months, d \in Days, h \in Hours, mi \in Minutes, sf \in Suffixes}
    \cup {<<"2", "0", "2", "4", "-", "0", "3", "-", "0", "5">>, NotADate}

DateInputs == {Null, Text(<<>>), Num(5)} \cup {Text(cs) : cs \in DateTexts}

(***************************************************************************)
(* Exceptions: an operation either returns a value or raises.              *)
(***************************************************************************)
Return(v) == [raised |-> FALSE, value |-> v]
Raise == [raised |-> TRUE]

\* what a handler sends back: a JSON body, or the framework's 500 page when
\* an exception leaves the handler
Respond(body) == [status |-> 200, body |-> body]
ServerError == [status |-> 500]

RECURSIVE SetToSeq(_)
SetToSeq(S) ==
    IF S = {} THEN <<>>
    ELSE LET x == CHOOSE y \in S : TRUE IN <<x>> \o SetToSeq(S \ {x})

\* iter(v) is defined for a list, a dict (its keys) and a str (its characters)
Iterable(v) == v.t \in {"list", "obj", "str"}

Items(v) ==
    CASE v.t = "list" -> v.l
      [] v.t = "obj"  -> [i \in 1..Cardinality(DOMAIN v.o) |-> Str(SetToSeq(DOMAIN v.o)[i])]
      [] v.t = "str"  -> [i \in 1..Len(v.c) |-> Text(<<v.c[i]>>)]

(***************************************************************************)
(* The upstream: a call either raises (transport error, timeout) or gives  *)
(* a response with a status and a body that parses as JSON or does not.    *)
(***************************************************************************)
Transport == [kind |-> "exc"]
Response(status, body) == [kind |-> "resp", status |-> status, parse |-> "ok", body |-> body]
Unparseable(status) == [kind |-> "resp", status |-> status, parse |-> "fail"]

\* Response.ok: raise_for_status() raises for 400 <= status < 600 only
ROk(r) == ~(400 <= r.status /\ r.status < 600)

(***************************************************************************)
(* check_in_trailer                                                        *)
(***************************************************************************)
\* the logging steps of check_in_trailer, each of which may raise
LogSteps == {"request", "request_fallback", "response", "parsed",
             "parse_error", "result", "exception"}

TrailerInfoNotNone(appt_data) ==
    LET condition_code == Get(appt_data, "ConditionCodeId", Null)
        base == [CarrierId       |-> Get(appt_data, "CarrierId", Null),
                 TrailerId       |-> Get(appt_data, "TrailerId", Null),
                 EquipmentTypeId |-> Get(appt_data, "EquipmentTypeId", Null)]
    IN  IF condition_code # Null
        THEN Obj([CarrierId       |-> base.CarrierId,
                  TrailerId       |-> base.TrailerId,
                  EquipmentTypeId |-> base.EquipmentTypeId,
                  ConditionCodeId |-> condition_code])
        ELSE Obj(base)

\* trailer_info, with ConditionCodeId added when it is truthy
TrailerInfo(appt_data) ==
    LET condition_code == Get(appt_data, "ConditionCodeId", Null)
        base == [CarrierId       |-> Get(appt_data, "CarrierId", Null),
                 TrailerId       |-> Get(appt_data, "TrailerId", Null),
                 EquipmentTypeId |-> Get(appt_data, "EquipmentTypeId", Null)]
    IN  IF Truthy(condition_code)
        THEN Obj([CarrierId       |-> base.CarrierId,
                  TrailerId       |-> base.TrailerId,
                  EquipmentTypeId |-> base.EquipmentTypeId,
                  ConditionCodeId |-> condition_code])
        ELSE Obj(base)

Payload(appt_data) ==
    LET appt_type == Get(appt_data, "AppointmentTypeId", Str("")) IN
    Obj([AppointmentInfo |-> Obj([AppointmentId     |-> Get(appt_data, "AppointmentId", Null),
                                  AppointmentTypeId |-> appt_type]),
         VisitType       |-> appt_type,
         TrailerInfo     |-> TrailerInfo(appt_data)])

CheckInSuccessful == Str("Check-in successful")
UnknownError == Str("Unknown error")
\* f"Request failed: {str(e)}"
RequestFailed == Str("Request failed: <detail>")

\* next((m.get("Description") for m in msg_list if m.get("Description")),
\*      "Check-in successful"); m.get raises on an m that is no dict
RECURSIVE FirstDescription(_)
FirstDescription(items) ==
    IF items = <<>> THEN Return(CheckInSuccessful)
    ELSE IF ~IsObj(Head(items)) THEN Raise
    ELSE IF Truthy(Get(Head(items), "Description", Null))
         THEN Return(Get(Head(items), "Description", Null))
    ELSE FirstDescription(Tail(items))

\* lines 128-131
SuccessBranch(response_json, logfail) ==
    LET messages == Get(response_json, "messages", Obj(EmptyObj)) IN
    IF ~IsObj(messages) THEN Raise
    ELSE LET msg_list == Get(messages, "Message", List(<<>>)) IN
         IF ~Iterable(msg_list) THEN Raise
         ELSE LET description == FirstDescription(Items(msg_list)) IN
              IF description.raised \/ "result" \in logfail THEN Raise
              ELSE Return(Obj([success |-> Bool(TRUE), message |-> description.value]))

\* err_list[0]: a list or str gives its first item, a dict has no key 0,
\* a number or bool is not subscriptable
HasFirst(v) == v.t \in {"list", "str"}

\* lines 134-140
FailureBranch(response_json, logfail) ==
    IF ~IsObj(response_json) \/ "result" \in logfail THEN Raise
    ELSE LET errors == Get(response_json, "errors", List(<<>>))
             err_list == IF Truthy(errors) THEN errors
                         ELSE Get(response_json, "exceptions", List(<<>>))
         IN  IF ~Truthy(err_list)
             THEN Return(Obj([success |-> Bool(FALSE), error |-> UnknownError]))
             ELSE IF ~HasFirst(err_list) THEN Raise
             ELSE IF ~IsObj(Items(err_list)[1]) THEN Raise
             ELSE Return(Obj([success |-> Bool(FALSE),
                              error   |-> Get(Items(err_list)[1], "message", Null)]))

\* response_json after lines 119-125
ParsedBody(r, logfail) ==
    IF r.parse = "fail" \/ "parsed" \in logfail
    THEN Obj([raw_text |-> Str("<text>")])
    ELSE r.body

\* the body of the try block, lines 111-140
Interpret(r, logfail) ==
    IF r.kind = "exc" \/ "response" \in logfail THEN Raise
    ELSE IF (r.parse = "fail" \/ "parsed" \in logfail) /\ "parse_error" \in logfail THEN Raise
    ELSE LET response_json == ParsedBody(r, logfail) IN
         IF ROk(r) /\ ~IsObj(response_json) THEN Raise
         ELSE IF ROk(r) /\ Truthy(Get(response_json, "success", Null))
              THEN SuccessBranch(response_json, logfail)
         ELSE FailureBranch(response_json, logfail)

\* whether check_in_trailer reaches requests.post
Posts(appt_data, logfail) ==
    IsObj(appt_data) /\ ~({"request", "request_fallback"} \subseteq logfail)

check_in_trailer(appt_data, r, logfail) ==
    IF ~Posts(appt_data, logfail) THEN Raise
    ELSE LET res == Interpret(r, logfail) IN
         IF ~res.raised THEN res
         ELSE IF "exception" \in logfail THEN Raise
         ELSE Return(Obj([success |-> Bool(FALSE), error |-> RequestFailed]))

MissingData == Obj([success |-> Bool(FALSE), error |-> Str("Missing data")])

\* all([...]) over request fields
AllTruthy(body, keys) == \A k \in keys : Truthy(Get(body, k, Null))

\* /api/checkin
checkin(body, r, logfail) ==
    IF ~IsObj(body) THEN ServerError
    ELSE IF ~AllTruthy(body, {"appt", "org", "token"}) THEN Respond(MissingData)
    ELSE LET result == check_in_trailer(body.o.appt, r, logfail) IN
         IF result.raised THEN ServerError ELSE Respond(result.value)

(***************************************************************************)
(* get_manhattan_token and /api/auth                                       *)
(***************************************************************************)
\* str.strip()
RECURSIVE LStrip(_)
LStrip(cs) == IF cs # <<>> /\ Head(cs) = " " THEN LStrip(Tail(cs)) ELSE cs

RECURSIVE RStrip(_)
RStrip(cs) ==
    IF cs # <<>> /\ cs[Len(cs)] = " " THEN RStrip(SubSeq(cs, 1, Len(cs) - 1)) ELSE cs

Strip(cs) == RStrip(LStrip(cs))

get_manhattan_token_unchecked(r) ==
    IF r.kind = "exc" THEN Null
    ELSE IF r.parse = "fail" THEN Null
    ELSE IF ~IsObj(r.body) THEN Null
    ELSE Get(r.body, "access_token", Null)

\* get_manhattan_token: None on a transport error, on raise_for_status(),
\* on a body that is no JSON object; else the body's access_token (or None)
get_manhattan_token(r) ==
    IF r.kind = "exc" THEN Null
    ELSE IF ~ROk(r) THEN Null
    ELSE IF r.parse = "fail" THEN Null
    ELSE IF ~IsObj(r.body) THEN Null
    ELSE Get(r.body, "access_token", Null)

OrgRequired == Obj([success |-> Bool(FALSE), error |-> Str("ORG required")])
AuthFailed == Obj([success |-> Bool(FALSE), error |-> Str("Auth failed")])

\* request.json.get('org', '').strip() is defined for a JSON object whose
\* org is a str (or missing)
OrgOk(body) == IsObj(body) /\ IsStr(Get(body, "org", Text(<<>>)))

AuthOrg(body) == Strip(Get(body, "org", Text(<<>>)).c)

\* /api/auth
auth(body, r) ==
    IF ~OrgOk(body) THEN ServerError
    ELSE IF AuthOrg(body) = <<>> THEN Respond(OrgRequired)
    ELSE LET token == get_manhattan_token(r) IN
         IF Truthy(token) THEN Respond(Obj([success |-> Bool(TRUE), token |-> token]))
         ELSE Respond(AuthFailed)

(***************************************************************************)
(* /api/search                                                             *)
(***************************************************************************)
\* results after lines 266-270
SearchResults(r) ==
    IF r.kind = "exc" THEN List(<<>>)
    ELSE IF ~ROk(r) THEN List(<<>>)
    ELSE IF r.parse = "fail" THEN List(<<>>)
    ELSE IF ~IsObj(r.body) THEN List(<<>>)
    ELSE Get(r.body, "data", List(<<>>))

\* STATUS_MAP.get(x) hashes x: a list or dict raises TypeError
Hashable(v) == v.t \notin {"list", "obj"}

\* the loop body, lines 273-274, runs for a dict whose status id hashes
Annotatable(appt) == IsObj(appt) /\ Hashable(Get(appt, "AppointmentStatusId", Null))

Annotate(appt) ==
    Obj([ScheduledDate |-> Text(format_date(Get(appt, "PreferredDateTime", Null))),
         StatusText    |-> Str(format_status(Get(appt, "AppointmentStatusId", Null)))]
        @@ appt.o)

\* request.json.get('appointment_id', '').strip()
AppointmentIdOk(body) == IsObj(body) /\ IsStr(Get(body, "appointment_id", Text(<<>>)))

\* /api/search
search(body, r) ==
    IF ~AppointmentIdOk(body) THEN ServerError
    ELSE IF \/ ~AllTruthy(body, {"org", "token"})
            \/ Strip(Get(body, "appointment_id", Text(<<>>)).c) = <<>>
         THEN Respond(MissingData)
    ELSE LET results == SearchResults(r) IN
         IF ~Iterable(results) THEN ServerError
         ELSE IF \E i \in 1..Len(Items(results)) : ~Annotatable(Items(results)[i])
              THEN ServerError
         ELSE IF ~IsList(results)
              THEN Respond(Obj([success |-> Bool(TRUE), results |-> results]))
         ELSE Respond(Obj([success |-> Bool(TRUE),
                           results |-> List([i \in 1..Len(results.l) |-> Annotate(results.l[i])])]))

(***************************************************************************)
(* /api/scheduled                                                          *)
(***************************************************************************)
page_size == 1000

FetchFailed == Obj([success |-> Bool(FALSE), error |-> Str("Failed to fetch scheduled appointments")])
\* {"success": False, "error": str(e)}
ExceptionText == Obj([success |-> Bool(FALSE), error |-> Str("<str(e)>")])

\* the request of one loop iteration
PageRequest(p) == [Query |-> "AppointmentStatusId= 3000", Size |-> page_size, Page |-> p]

\* r.json().get("data", []) and all_appointments.extend(data) raise on a
\* transport error, an unparseable body, a body that is no object and data
\* that is not iterable
PageRaises(r) ==
    \/ r.kind = "exc"
    \/ r.parse = "fail"
    \/ ~IsObj(r.body)
    \/ ~Iterable(Get(r.body, "data", List(<<>>)))

PageData(r) == Items(Get(r.body, "data", List(<<>>)))

LastPageOffByOne(data) == Len(data) <= page_size

\* len(data) < page_size
LastPage(data) == Len(data) < page_size

(***************************************************************************)
(* Inputs: request bodies and upstream answers                             *)
(***************************************************************************)
\* the longest Message / errors / exceptions list the upstream sends
MaxList == 2

SeqsUpTo(S, n) == UNION {[1..k -> S] : k \in 0..n}

Statuses == {200, 302, 401, 500}

MsgElems == {Obj([Description |-> Str("OK")]),
             Obj([Description |-> Str("Trailer checked in")]),
             Obj([Description |-> Str("")]),
             Obj([Code |-> Str("I1")]),
             Text(<<"O", "K">>)}

MessagesShapes ==
    {Null, Obj(EmptyObj), Obj([Message |-> Null]),
     Obj([Message |-> Obj([Description |-> Str("OK")])])}
    \cup {Obj([Message |-> List(l)]) : l \in SeqsUpTo(MsgElems, MaxList)}

ErrElems == {Obj([message |-> Str("Carrier not found")]),
             Obj([code |-> Str("E1")]),
             Text(<<"b", "o", "o", "m">>)}

ExcElems == {Obj([message |-> Str("Internal error")])}

ErrorsShapes == {Null, Obj([message |-> Str("Carrier not found")])}
                \cup {List(l) : l \in SeqsUpTo(ErrElems, MaxList)}

ExceptionsShapes == {List(l) : l \in SeqsUpTo(ExcElems, MaxList)}

SuccessBodies ==
    {Obj([success |-> Bool(TRUE)])}
    \cup {Obj([success |-> Bool(TRUE), messages |-> m]) : m \in MessagesShapes}
    \cup {Obj([success |-> Bool(TRUE), messages |-> Obj([Message |-> List(<<>>)]), errors |-> e]) :
            e \in {List(<<Obj([message |-> Str("Carrier not found")])>>)}}

FailureBodies ==
    {Obj(EmptyObj), Obj([success |-> Bool(FALSE)])}
    \cup {Obj([success |-> Bool(FALSE), errors |-> e]) : e \in ErrorsShapes}
    \cup {Obj([success |-> Bool(FALSE), exceptions |-> x]) : x \in ExceptionsShapes}
    \cup {Obj([success |-> Bool(FALSE), errors |-> e, exceptions |-> x]) :
            e \in ErrorsShapes, x \in ExceptionsShapes}

\* JSON that is no object
NonObjectBodies == {Null, List(<<>>)}

CheckinUpstreams ==
    {Transport}
    \cup {Unparseable(st) : st \in Statuses}
    \cup {Response(st, b) : st \in Statuses,
                            b \in SuccessBodies \cup FailureBodies \cup NonObjectBodies}

\* which logging steps raise during one call
LogFailures == {{}, {"request"}, {"request", "request_fallback"}, {"response"},
                {"parsed"}, {"parse_error"}, {"parsed", "parse_error"},
                {"result"}, {"exception"}, {"response", "exception"}}

ConditionCodes == {Null, Str(""), Str("DMG"), Num(0), Num(7), Bool(FALSE), Bool(TRUE),
                   List(<<>>), List(<<Str("DMG")>>)}

Appts ==
    {Obj([AppointmentId |-> Str("A1"), AppointmentTypeId |-> Str("LIVE"),
          CarrierId |-> Str("C1"), TrailerId |-> Str("T1"), EquipmentTypeId |-> Str("53FT")])}
    \cup {Obj([AppointmentId |-> Str("A1"), AppointmentTypeId |-> Str("LIVE"),
               CarrierId |-> Str("C1"), TrailerId |-> Str("T1"), EquipmentTypeId |-> Str("53FT"),
               ConditionCodeId |-> cc]) : cc \in ConditionCodes}
    \cup {Str("A1"), List(<<Str("A1")>>), Obj(EmptyObj)}

CheckinBodies ==
    NonObjectBodies
    \cup {Obj([org |-> Str("ACME"), token |-> Str("tok")]),
          Obj([appt |-> Obj([AppointmentId |-> Str("A1")]), org |-> Str(""), token |-> Str("tok")])}
    \cup {Obj([appt |-> a, org |-> Str("ACME"), token |-> Str("tok")]) : a \in Appts}

Orgs == {Text(<<>>), Text(<<" ">>), Text(<<"A", "C">>), Text(<<" ", "A", "C", " ">>)}

AuthBodies ==
    NonObjectBodies
    \cup {Obj(EmptyObj), Obj([org |-> Null]), Obj([org |-> Num(7)])}
    \cup {Obj([org |-> o]) : o \in Orgs}

TokenBodies == {Obj([access_token |-> Str("tok")]),
                Obj([access_token |-> Str("")]),
                Obj([access_token |-> Null]),
                Obj([error |-> Str("invalid_grant")]),
                Obj(EmptyObj)}

AuthUpstreams ==
    {Transport}
    \cup {Unparseable(st) : st \in Statuses}
    \cup {Response(st, b) : st \in Statuses, b \in TokenBodies \cup NonObjectBodies}

AppointmentIds == {"A1", "A2"}

SearchRecords ==
    {Obj([AppointmentId |-> Str(id), AppointmentStatusId |-> Str(st)]) :
        id \in AppointmentIds, st \in {"3000", "7777"}}
    \cup {Obj([AppointmentId |-> Str(id), AppointmentStatusId |-> Str("4000"),
               PreferredDateTime |-> Text(IsoText(2024, 3, 5, 14, 30, <<"Z">>))]) :
            id \in AppointmentIds}
    \cup {Obj([AppointmentId |-> Str("A1"), AppointmentStatusId |-> List(<<>>)]),
          Text(<<"A", "1">>)}

SearchData == {Null, Obj(EmptyObj)} \cup {List(l) : l \in SeqsUpTo(SearchRecords, MaxList)}

SearchUpstreams ==
    {Transport}
    \cup {Unparseable(st) : st \in Statuses}
    \cup {Response(st, b) : st \in Statuses, b \in NonObjectBodies \cup {Obj(EmptyObj)}}
    \cup {Response(st, Obj([data |-> d])) : st \in Statuses, d \in SearchData}

SearchBodies ==
    NonObjectBodies
    \cup {Obj([org |-> Str("ACME"), token |-> Str("tok")]),
          Obj([org |-> Str("ACME"), token |-> Str("tok"), appointment_id |-> Num(7)]),
          Obj([org |-> Str("ACME"), token |-> Str("tok"), appointment_id |-> Text(<<" ">>)]),
          Obj([org |-> Str(""), token |-> Str("tok"), appointment_id |-> Text(<<"A", "1">>)]),
          Obj([org |-> Str("ACME"), token |-> Str("tok"), appointment_id |-> Text(<<"A", "1">>)])}

ScheduledBodies ==
    NonObjectBodies
    \cup {Obj([org |-> Str("ACME")]), Obj([org |-> Str("ACME"), token |-> Str("tok")])}

\* the most pages the upstream holds: past it, it sends no full page
MaxPages == 3

\* the records of page p, n of them
PageRecords(p, n) == [i \in 1..n |-> Obj([AppointmentId |-> Num(p * (page_size + 1) + i)])]

PageLengths == {0, 1, page_size - 1, page_size, page_size + 1}

PageUpstreams(p) ==
    {Transport, Unparseable(200), Response(500, Obj(EmptyObj)), Response(200, Null),
     Response(200, Obj(EmptyObj)), Response(200, Obj([data |-> Null]))}
    \cup {Response(200, Obj([data |-> List(PageRecords(p, n))])) :
            n \in {m \in PageLengths : m < page_size \/ p + 1 < MaxPages}}

\* no upstream call was made
NoCall == [kind |-> "none"]

(***************************************************************************)
(* The state machine                                                       *)
(***************************************************************************)
Init ==
    /\ op = "idle"
    /\ inp = Null
    /\ up = NoCall
    /\ out = Null
    /\ sent = Null
    /\ pc = "idle"
    /\ page = 0
    /\ all_appointments = <<>>
    /\ requested = <<>>
    /\ fetched = <<>>

\* a handler that is no loop leaves the pagination state of /api/scheduled blank
NoLoop ==
    /\ pc' = "idle"
    /\ page' = 0
    /\ all_appointments' = <<>>
    /\ requested' = <<>>
    /\ fetched' = <<>>

\* a call of format_date
FormatDate ==
    /\ op = "idle"
    /\ \E d \in DateInputs :
        /\ op' = "format_date"
        /\ inp' = d
        /\ out' = format_date(d)
    /\ up' = NoCall
    /\ sent' = Null
    /\ NoLoop

\* POST /api/checkin
CheckIn ==
    /\ op = "idle"
    /\ \E body \in CheckinBodies, r \in CheckinUpstreams, logfail \in LogFailures :
        LET posts == /\ IsObj(body)
                     /\ AllTruthy(body, {"appt", "org", "token"})
                     /\ Posts(body.o.appt, logfail)
        IN  /\ op' = "checkin"
            /\ inp' = [body |-> body, logfail |-> logfail]
            /\ up' = IF posts THEN r ELSE NoCall
            /\ sent' = IF posts THEN Payload(body.o.appt) ELSE Null
            /\ out' = checkin(body, r, logfail)
    /\ NoLoop

\* POST /api/auth
Auth ==
    /\ op = "idle"
    /\ \E body \in AuthBodies, r \in AuthUpstreams :
        LET calls == OrgOk(body) /\ AuthOrg(body) # <<>>
        IN  /\ op' = "auth"
            /\ inp' = [body |-> body]
            /\ up' = IF calls THEN r ELSE NoCall
            /\ sent' = Null
            /\ out' = auth(body, r)
    /\ NoLoop

\* POST /api/search
Search ==
    /\ op = "idle"
    /\ \E body \in SearchBodies, r \in SearchUpstreams :
        LET calls == /\ AppointmentIdOk(body)
                     /\ AllTruthy(body, {"org", "token", "appointment_id"})
                     /\ Strip(body.o.appointment_id.c) # <<>>
        IN  /\ op' = "search"
            /\ inp' = [body |-> body]
            /\ up' = IF calls THEN r ELSE NoCall
            /\ sent' = Null
            /\ out' = search(body, r)
    /\ NoLoop

\* POST /api/scheduled, up to the pagination loop
ScheduledStart ==
    /\ op = "idle"
    /\ \E body \in ScheduledBodies :
        /\ op' = "scheduled"
        /\ inp' = [body |-> body]
        /\ IF ~IsObj(body)
           THEN out' = ServerError /\ pc' = "done"
           ELSE IF ~AllTruthy(body, {"org", "token"})
           THEN out' = Respond(MissingData) /\ pc' = "done"
           ELSE out' = Null /\ pc' = "loop"
    /\ up' = NoCall
    /\ sent' = Null
    /\ page' = 0
    /\ all_appointments' = <<>>
    /\ requested' = <<>>
    /\ fetched' = <<>>

\* one iteration of the while loop, lines 222-240, and the return after it
ScheduledFetch ==
    /\ op = "scheduled"
    /\ pc = "loop"
    /\ \E r \in PageUpstreams(page) :
        /\ requested' = Append(requested, PageRequest(page))
        /\ fetched' = Append(fetched, r)
        /\ up' = r
        /\ IF r.kind = "resp" /\ ~ROk(r)
           THEN /\ out' = Respond(FetchFailed)
                /\ pc' = "done"
                /\ UNCHANGED <<page, all_appointments>>
           ELSE IF PageRaises(r)
           THEN /\ out' = Respond(ExceptionText)
                /\ pc' = "done"
                /\ UNCHANGED <<page, all_appointments>>
           ELSE /\ all_appointments' = all_appointments \o PageData(r)
                /\ IF LastPage(PageData(r))
                   THEN /\ out' = Respond(Obj([success      |-> Bool(TRUE),
                                               appointments |-> List(all_appointments')]))
                        /\ pc' = "done"
                        /\ page' = page
                   ELSE /\ out' = Null
                        /\ pc' = "loop"
                        /\ page' = page + 1
    /\ UNCHANGED <<op, inp, sent>>

\* the response is delivered; nothing of the request is kept
Finish ==
    /\ op # "idle"
    /\ pc # "loop"
    /\ op' = "idle"
    /\ inp' = Null
    /\ up' = NoCall
    /\ out' = Null
    /\ sent' = Null
    /\ NoLoop

Next == FormatDate \/ CheckIn \/ Auth \/ Search \/ ScheduledStart \/ ScheduledFetch \/ Finish

Spec == Init /\ [][Next]_vars

\* each iteration ends: requests.post returns or raises within its timeout
FairSpec == Spec /\ WF_vars(ScheduledFetch)

(***************************************************************************)
(* Claims                                                                  *)
(***************************************************************************)
\* a check-in that reached the upstream, got a response, and logged
\* without a failure
CheckinAnswered ==
    /\ op = "checkin"
    /\ up.kind = "resp"
    /\ inp.logfail = {}

\* the parsed body has a truthy success field
BodySuccess(r) ==
    r.parse = "ok" /\ IsObj(r.body) /\ Truthy(Get(r.body, "success", Null))

\* messages.Message where it is a list, else no messages
MessageList(body) ==
    IF /\ HasKey(body, "messages") /\ IsObj(body.o.messages)
       /\ HasKey(body.o.messages, "Message") /\ IsList(body.o.messages.o.Message)
    THEN body.o.messages.o.Message.l
    ELSE <<>>

HasDescription(m) == IsObj(m) /\ HasKey(m, "Description") /\ Truthy(m.o.Description)

ExpectedMessage(body) ==
    LET l == MessageList(body)
        hits == {i \in 1..Len(l) : HasDescription(l[i])}
    IN  IF hits = {} THEN CheckInSuccessful
        ELSE l[CHOOSE i \in hits : \A j \in hits : i <= j].o.Description

\* C1: on a success status and a truthy success field, check_in_trailer
\* returns {success: true, message: m}, m the first non-empty Description of
\* messages.Message in list order, or "Check-in successful" when messages is
\* missing, Message is empty or no element has a non-empty Description.
C1_SuccessMessage ==
    (CheckinAnswered /\ ROk(up) /\ BodySuccess(up))
        => out = Respond(Obj([success |-> Bool(TRUE), message |-> ExpectedMessage(up.body)]))

NonEmptyList(body, k) ==
    IsObj(body) /\ HasKey(body, k) /\ IsList(body.o[k]) /\ Len(body.o[k].l) > 0

MessageOf(e) == IF IsObj(e) /\ HasKey(e, "message") THEN e.o.message ELSE Null

ExpectedError(r) ==
    IF r.parse = "fail" THEN UnknownError
    ELSE IF NonEmptyList(r.body, "errors") THEN MessageOf(r.body.o.errors.l[1])
    ELSE IF NonEmptyList(r.body, "exceptions") THEN MessageOf(r.body.o.exceptions.l[1])
    ELSE UnknownError

\* C2: when the upstream answered but the status is no success status or the
\* body has no truthy success field (an unparseable body counts as {}),
\* check_in_trailer returns {success: false, error: e}, e the message of the
\* first element of errors if that is non-empty, else of exceptions if that
\* is non-empty, else "Unknown error".
C2_FailureError ==
    (CheckinAnswered /\ ~(ROk(up) /\ BodySuccess(up)))
        => out = Respond(Obj([success |-> Bool(FALSE), error |-> ExpectedError(up)]))

\* the appointment of a check-in whose payload was posted
PostedAppt == inp.body.o.appt

SentTrailerInfo == sent.o.TrailerInfo

\* C3 as stated: ConditionCodeId is left out of TrailerInfo when the
\* appointment's is absent, null or "", and sent verbatim for every other
\* value; it is never sent as null.
C3_ConditionCodeAsStated ==
    (op = "checkin" /\ sent # Null) =>
        IF \/ ~HasKey(PostedAppt, "ConditionCodeId")
           \/ PostedAppt.o.ConditionCodeId \in {Null, Str("")}
        THEN ~HasKey(SentTrailerInfo, "ConditionCodeId")
        ELSE /\ HasKey(SentTrailerInfo, "ConditionCodeId")
             /\ SentTrailerInfo.o.ConditionCodeId = PostedAppt.o.ConditionCodeId

\* C3: ConditionCodeId is left out of TrailerInfo when the appointment's is
\* absent or falsy (null, "", 0, false, an empty collection), and sent
\* verbatim for every truthy value; it is never sent as null.
C3_ConditionCode ==
    (op = "checkin" /\ sent # Null) =>
        IF \/ ~HasKey(PostedAppt, "ConditionCodeId")
           \/ PostedAppt.o.ConditionCodeId \in {Null, Str(""), Num(0), Bool(FALSE), List(<<>>)}
        THEN ~HasKey(SentTrailerInfo, "ConditionCodeId")
        ELSE /\ HasKey(SentTrailerInfo, "ConditionCodeId")
             /\ SentTrailerInfo.o.ConditionCodeId = PostedAppt.o.ConditionCodeId
             /\ SentTrailerInfo.o.ConditionCodeId # Null

\* a payload was posted for an appointment that carries a condition code,
\* and the payload carries it
C3_Witness ==
    /\ op = "checkin" /\ sent # Null
    /\ HasKey(PostedAppt, "ConditionCodeId")
    /\ PostedAppt.o.ConditionCodeId = Str("DMG")
    /\ HasKey(SentTrailerInfo, "ConditionCodeId")

\* the characters of cs after its first space and before its first colon
RECURSIVE AfterSpace(_)
AfterSpace(cs) ==
    IF cs = <<>> THEN <<>>
    ELSE IF Head(cs) = " " THEN Tail(cs) ELSE AfterSpace(Tail(cs))

RECURSIVE BeforeColon(_)
BeforeColon(cs) ==
    IF cs = <<>> \/ Head(cs) = ":" THEN <<>>
    ELSE <<Head(cs)>> \o BeforeColon(Tail(cs))

HourPart(cs) == BeforeColon(AfterSpace(cs))

ParseableInput(d) == IsStr(d) /\ Truthy(d) /\ IsoParseable(ReplaceZ(d.c))

\* C4: format_date of a parseable ISO timestamp gives month/day hour:minute
\* with no leading zero on the hour; format_date(None) and format_date of an
\* unparseable text give the placeholder.
C4_HourNoLeadingZero ==
    op = "format_date" =>
        IF ParseableInput(inp)
        THEN /\ HourPart(out) # <<>>
             /\ Head(HourPart(out)) # "0"
        ELSE out = EmDash

\* a handler has answered
Answered == op \in {"checkin", "auth", "search", "scheduled"} /\ pc # "loop"

\* C5: every exception raised while a request is served is caught and turned
\* into a {success: false, error} body; no request ends in a server error.
C5_NoServerError ==
    Answered =>
        /\ out # ServerError
        /\ out.status = 200
        /\ IsObj(out.body) /\ HasKey(out.body, "success")

\* the upstream call failed: transport error, non-success status or a body
\* that does not parse
UpstreamFailed(r) == r.kind = "exc" \/ ~ROk(r) \/ r.parse = "fail"

\* C6: a failed upstream call never aborts /api/search or the pagination of
\* /api/scheduled: the failed call contributes no records, the records of
\* earlier pages are kept, and the response is success: true.
C6_FailureIsolated ==
    /\ (op = "search" /\ up.kind # "none" /\ UpstreamFailed(up))
        => out = Respond(Obj([success |-> Bool(TRUE), results |-> List(<<>>)]))
    /\ (op = "scheduled" /\ pc = "done" /\ fetched # <<>> /\ UpstreamFailed(fetched[Len(fetched)]))
        => out = Respond(Obj([success |-> Bool(TRUE), appointments |-> List(all_appointments)]))

\* the AppointmentId of each record of a list of records
IdsOf(l) == [i \in 1..Len(l) |-> Get(l[i], "AppointmentId", Null)]

\* ids with every later occurrence of an id dropped
RECURSIVE FirstOccurrences(_)
FirstOccurrences(ids) ==
    IF ids = <<>> THEN <<>>
    ELSE LET init == FirstOccurrences(SubSeq(ids, 1, Len(ids) - 1))
             last == ids[Len(ids)]
         IN  IF \E i \in 1..Len(init) : init[i] = last THEN init ELSE Append(init, last)

SearchSucceeded ==
    /\ op = "search" /\ up.kind = "resp" /\ out.status = 200
    /\ out.body.o.success = Bool(TRUE)
    /\ IsList(out.body.o.results)

\* C7: the results of /api/search never hold two records with the same
\* AppointmentId, whatever the upstream returns: only the first occurrence of
\* an id is kept, in the order of first occurrences.
C7_UniqueResults ==
    SearchSucceeded =>
        LET ids == IdsOf(out.body.o.results.l) IN
        /\ \A i, j \in 1..Len(ids) : ids[i] = ids[j] => i = j
        /\ ids = FirstOccurrences(IdsOf(SearchResults(up).l))

\* C8: logging never alters the result of check_in_trailer: whatever logging
\* step fails, the answer is the one given when every step succeeds.
C8_LoggingNeutral ==
    (op = "checkin" /\ up.kind # "none") => out = checkin(inp.body, up, {})

Is2xx(r) == 200 <= r.status /\ r.status < 300

IsErrorStatus(r) == 400 <= r.status /\ r.status < 600

\* the body is a JSON object with a non-empty access_token
CarriesToken(r) ==
    r.parse = "ok" /\ IsObj(r.body) /\ HasKey(r.body, "access_token")
    /\ Truthy(r.body.o.access_token)

TokenAnswer(r) == Respond(Obj([success |-> Bool(TRUE), token |-> r.body.o.access_token]))

\* /api/auth called the upstream (the org is a non-empty str)
AuthCalled == op = "auth" /\ up.kind # "none"

\* C9 as stated: /api/auth answers {success: true, token: t} only when the
\* token exchange returned a 2xx status and a body with a non-empty
\* access_token t; in every other case the answer is "Auth failed".
C9_AuthAsStated ==
    AuthCalled =>
        IF up.kind = "resp" /\ Is2xx(up) /\ CarriesToken(up)
        THEN out = TokenAnswer(up)
        ELSE out = Respond(AuthFailed)

\* C9: /api/auth answers {success: true, token: t} only when the token
\* exchange returned a status that is no 4xx/5xx error and a body with a
\* non-empty access_token t; on a transport error, a 4xx/5xx status, a
\* malformed body or a missing access_token the answer is the fixed
\* "Auth failed", never a server error.
C9_Auth ==
    AuthCalled =>
        IF up.kind = "resp" /\ ~IsErrorStatus(up) /\ CarriesToken(up)
        THEN out = TokenAnswer(up)
        ELSE out = Respond(AuthFailed)

\* a token exchange that succeeded and was passed on
C9_Witness ==
    /\ AuthCalled /\ up.kind = "resp" /\ up.status = 200 /\ CarriesToken(up)
    /\ out = TokenAnswer(up)

\* a page that makes the loop go on: a success with page_size records or more
FullPage(r) ==
    /\ r.kind = "resp" /\ ~IsErrorStatus(r) /\ r.parse = "ok" /\ IsObj(r.body)
    /\ HasKey(r.body, "data") /\ IsList(r.body.o.data)
    /\ Len(r.body.o.data.l) >= 1000

RECURSIVE ConcatData(_)
ConcatData(rs) ==
    IF rs = <<>> THEN <<>>
    ELSE ConcatData(SubSeq(rs, 1, Len(rs) - 1)) \o Get(rs[Len(rs)].body, "data", List(<<>>)).l

ScheduledSucceeded ==
    /\ op = "scheduled" /\ pc = "done" /\ fetched # <<>>
    /\ out.body.o.success = Bool(TRUE)

C10_Safety ==
    op = "scheduled" =>
        /\ Len(requested) = Len(fetched)
        /\ \A i \in 1..Len(requested) : requested[i].Page = i - 1 /\ requested[i].Size = 1000
        /\ \A i \in 1..(Len(fetched) - 1) : FullPage(fetched[i])
        /\ pc = "loop" => (page = Len(fetched) /\ \A i \in 1..Len(fetched) : FullPage(fetched[i]))
        /\ (pc = "done" /\ fetched # <<>>) => ~FullPage(fetched[Len(fetched)])
        /\ ScheduledSucceeded => out = Respond(Obj([success      |-> Bool(TRUE),
                                                    appointments |-> List(ConcatData(fetched))]))

\* C10: the pagination loop asks for pages 0, 1, 2, ... in order, each once
\* and with size 1000, asks nothing after the first page shorter than 1000
\* or the first failure, stops for no other reason, returns on success the
\* concatenation in page order of the pages it fetched, and ends once the
\* upstream sends a short page or fails.
C10_Pagination ==
    /\ []C10_Safety
    /\ (op = "scheduled" /\ pc = "loop") ~> (op = "scheduled" /\ pc = "done")

\* three pages were fetched, the last one short, and all were returned
C10_Witness ==
    /\ ScheduledSucceeded
    /\ Len(fetched) = 3
    /\ Len(out.body.o.appointments.l) > 2 * 1000

====
